---- MODULE Spec2Model ----
(***************************************************************************)
(* Model of kvcache_calculator.py: the KVCacheCalculator engine, its three *)
(* configuration records and the dtype width table.                        *)
(*                                                                         *)
(* Python floats are modelled as exact rationals [num, den] in lowest      *)
(* terms (den > 0).  Memory amounts are kept in GiB, the unit of the       *)
(* records; the factor 1024**3 of the source is applied where the source   *)
(* converts to a token count, so that every intermediate value stays       *)
(* inside TLC's integer range.                                             *)
(***************************************************************************)
EXTENDS Integers, Sequences, FiniteSets, TLC

VARIABLES model_config, system_config, conv_pattern, call, result

vars == <<model_config, system_config, conv_pattern, call, result>>

(***************************************************************************)
(* Exact rational arithmetic standing for Python's float operators.        *)
(***************************************************************************)
Abs(n) == IF n < 0 THEN -n ELSE n

RECURSIVE GCD(_, _)
GCD(a, b) == IF b = 0 THEN a ELSE GCD(b, a % b)

Rat(n, d) ==
    LET g == GCD(Abs(n), d) IN [num |-> n \div g, den |-> d \div g]

RInt(n) == [num |-> n, den |-> 1]

RNeg(x) == [num |-> -x.num, den |-> x.den]

RMul(x, y) ==
    LET g1 == GCD(Abs(x.num), y.den)
        g2 == GCD(Abs(y.num), x.den)
    IN  [num |-> (x.num \div g1) * (y.num \div g2),
         den |-> (x.den \div g2) * (y.den \div g1)]

RInv(y) ==
    IF y.num > 0 THEN [num |-> y.den, den |-> y.num]
                 ELSE [num |-> -y.den, den |-> -y.num]

RDiv(x, y) == RMul(x, RInv(y))

RAdd(x, y) ==
    LET g == GCD(x.den, y.den)
    IN  Rat(x.num * (y.den \div g) + y.num * (x.den \div g),
            (x.den \div g) * y.den)

RSub(x, y) == RAdd(x, RNeg(y))

RLeq(x, y) ==
    LET g == GCD(x.den, y.den)
    IN  x.num * (y.den \div g) <= y.num * (x.den \div g)

RLt(x, y) == ~RLeq(y, x)

RMin(x, y) == IF RLeq(x, y) THEN x ELSE y

RMax(x, y) == IF RLeq(y, x) THEN x ELSE y

Zero == RInt(0)

One == RInt(1)

\* <<q, r>> with n * k = q * d + r and 0 <= r < d, for n, k >= 0 and d > 0,
\* computed by doubling so that no intermediate product leaves 32 bits.
RECURSIVE MulDiv(_, _, _)
MulDiv(n, k, d) ==
    IF k = 0 THEN <<0, 0>>
    ELSE LET p == MulDiv(n, k \div 2, d)
             t == 2 * p[2] + (k % 2) * (n % d)
         IN  <<2 * p[1] + (k % 2) * (n \div d) + t \div d, t % d>>

(***************************************************************************)
(* Outcome of a call: a returned value or a raised exception.              *)
(***************************************************************************)
Ok(v) == [exc |-> "None", val |-> v]

Raise(e) == [exc |-> e, val |-> <<>>]

(***************************************************************************)
(* Constants of the source.                                                *)
(***************************************************************************)
GiB == 1073741824

\* Variant of Overhead: 1.25 in place of 1.2.
OverheadQuarter == Rat(5, 4)

Overhead == Rat(6, 5)

AchievableFactor == RInt(2)

DefaultTargetHitRate == Rat(4, 5)

ModelDtype ==
    {"ModelDtype.FP16", "ModelDtype.FP32", "ModelDtype.BF16",
     "ModelDtype.FP8", "ModelDtype.INT8", "ModelDtype.INT4"}

KVCacheDtype ==
    {"KVCacheDtype.FP16", "KVCacheDtype.FP32", "KVCacheDtype.BF16",
     "KVCacheDtype.FP8", "KVCacheDtype.INT8"}

\* Variant of dtype_bytes holding the KVCacheDtype entries only.
dtype_bytes_cache_only ==
    ("KVCacheDtype.FP32" :> RInt(4)) @@ ("KVCacheDtype.FP16" :> RInt(2)) @@
    ("KVCacheDtype.BF16" :> RInt(2)) @@ ("KVCacheDtype.FP8" :> RInt(1)) @@
    ("KVCacheDtype.INT8" :> RInt(1))

\* KVCacheCalculator.__init__: one table keyed by the members of both enums.
dtype_bytes ==
    ("ModelDtype.FP32" :> RInt(4)) @@ ("ModelDtype.FP16" :> RInt(2)) @@
    ("ModelDtype.BF16" :> RInt(2)) @@ ("ModelDtype.FP8" :> RInt(1)) @@
    ("ModelDtype.INT8" :> RInt(1)) @@ ("ModelDtype.INT4" :> Rat(1, 2)) @@
    ("KVCacheDtype.FP32" :> RInt(4)) @@ ("KVCacheDtype.FP16" :> RInt(2)) @@
    ("KVCacheDtype.BF16" :> RInt(2)) @@ ("KVCacheDtype.FP8" :> RInt(1)) @@
    ("KVCacheDtype.INT8" :> RInt(1))

(***************************************************************************)
(* The engine.  Each local of the source is an operator of its own.        *)
(***************************************************************************)
bytes_per_element(mc) == dtype_bytes[mc.kvcache_dtype]

\* Variant of memory_per_token counting attention heads, not KV heads.
memory_per_token_attention_heads(mc) ==
    RMul(RMul(RMul(RMul(RInt(2), RInt(mc.num_layers)),
                   RInt(mc.num_attention_heads)),
              RInt(mc.head_dim)),
         bytes_per_element(mc))

memory_per_token(mc) ==
    RMul(RMul(RMul(RMul(RInt(2), RInt(mc.num_layers)),
                   RInt(mc.num_kv_heads)),
              RInt(mc.head_dim)),
         bytes_per_element(mc))

\* self.dtype_bytes[...] raises KeyError for a key the table lacks.
calculate_kvcache_memory_per_token(mc) ==
    IF mc.kvcache_dtype \notin DOMAIN dtype_bytes
    THEN Raise("KeyError")
    ELSE Ok(memory_per_token(mc))

calculate_derived_qps(cp) ==
    RMul(cp.conversation_arrival_rate, cp.avg_conversation_length)

\* Variant of available_for_cache that forgets the 1.2x overhead.
available_for_cache_no_overhead(mc, sc) ==
    RSub(sc.available_memory_gb, mc.model_size_gb)

\* available_for_cache of the source, in GiB instead of bytes.
available_for_cache(mc, sc) ==
    RSub(sc.available_memory_gb, RMul(mc.model_size_gb, Overhead))

\* Variant of max_tokens that rounds the quotient up.
max_tokens_rounded_up(afc, mpt) ==
    LET q == RDiv(afc, mpt)
        p == MulDiv(q.num, GiB, q.den)
    IN  IF p[2] = 0 THEN p[1] ELSE p[1] + 1

\* int(available_for_cache / memory_per_token) for available_for_cache > 0:
\* afc GiB are afc * 1024**3 bytes; int() drops the fraction.
max_tokens(afc, mpt) ==
    LET q == RDiv(afc, mpt) IN MulDiv(q.num, GiB, q.den)[1]

calculate_max_cached_tokens(mc, sc) ==
    LET mpt == calculate_kvcache_memory_per_token(mc)
        afc == available_for_cache(mc, sc)
    IN  IF mpt.exc # "None" THEN mpt
        ELSE IF RLeq(afc, Zero) THEN Ok(0)
        ELSE IF mpt.val.num = 0 THEN Raise("ZeroDivisionError")
        ELSE Ok(max_tokens(afc, mpt.val))

StarvedMetrics ==
    ("hit_rate" :> Zero) @@ ("avg_cached_conversations" :> Zero) @@
    ("cache_utilization" :> Zero) @@ ("max_cached_tokens" :> Zero) @@
    ("active_conversations" :> Zero)

avg_tokens_per_conversation(cp) ==
    RMul(cp.avg_conversation_length, RInt(cp.avg_sequence_length))

max_cached_conversations(max_cached_tokens, cp) ==
    RDiv(RInt(max_cached_tokens), avg_tokens_per_conversation(cp))

conversation_lifetime(cp) ==
    RMul(cp.avg_conversation_length, cp.within_conversation_interval)

active_conversations(cp) ==
    RMul(cp.conversation_arrival_rate, conversation_lifetime(cp))

intra_conversation_hit(cp) ==
    RSub(One, RDiv(One, cp.avg_conversation_length))

\* Variant of hit_rate with the capacity ratio upside down.
hit_rate_inverted_ratio(active, cached, cp) ==
    IF RLeq(active, cached)
    THEN intra_conversation_hit(cp)
    ELSE RMul(intra_conversation_hit(cp), RDiv(active, cached))

hit_rate(active, cached, cp) ==
    IF RLeq(active, cached)
    THEN intra_conversation_hit(cp)
    ELSE RMul(intra_conversation_hit(cp), RDiv(cached, active))

\* Variant of cache_utilization without the min(..., 1.0).
cache_utilization_uncapped(active, cached) ==
    IF RLt(Zero, cached) THEN RDiv(active, cached) ELSE Zero

cache_utilization(active, cached) ==
    IF RLt(Zero, cached) THEN RMin(RDiv(active, cached), One) ELSE Zero

\* max(0.0, min(1.0, hit_rate))
clamped(h) == RMax(Zero, RMin(One, h))

calculate_conversation_hit_rate(mc, sc, cp) ==
    LET mct == calculate_max_cached_tokens(mc, sc)
        cached == max_cached_conversations(mct.val, cp)
        active == active_conversations(cp)
    IN  IF mct.exc # "None" THEN mct
        ELSE IF mct.val <= 0 THEN Ok(StarvedMetrics)
        ELSE IF avg_tokens_per_conversation(cp).num = 0
             THEN Raise("ZeroDivisionError")
        ELSE Ok(("hit_rate" :> clamped(hit_rate(active, cached, cp))) @@
                ("avg_cached_conversations" :> RMin(active, cached)) @@
                ("cache_utilization" :> cache_utilization(active, cached)) @@
                ("max_cached_tokens" :> RInt(mct.val)) @@
                ("active_conversations" :> active))

\* (max_cached_tokens * memory_per_token) / 1024**3
cache_memory_gb(max_cached_tokens, mpt) ==
    RMul(max_cached_tokens, RDiv(mpt, RInt(GiB)))

calculate_detailed_metrics(mc, sc, cp) ==
    LET basic == calculate_conversation_hit_rate(mc, sc, cp)
        mpt == memory_per_token(mc)
        model_memory_gb == RMul(mc.model_size_gb, Overhead)
        derived_qps == calculate_derived_qps(cp)
        tokens_per_second == RMul(derived_qps, RInt(cp.avg_sequence_length))
        cache_hits_per_second ==
            RMul(tokens_per_second, basic.val["hit_rate"])
    IN  IF basic.exc # "None" THEN basic
        ELSE Ok(basic.val @@
                ("memory_per_token_bytes" :> mpt) @@
                ("model_memory_gb" :> model_memory_gb) @@
                ("cache_memory_gb" :>
                     cache_memory_gb(basic.val["max_cached_tokens"], mpt)) @@
                ("derived_qps" :> derived_qps) @@
                ("tokens_per_second" :> tokens_per_second) @@
                ("cache_hits_per_second" :> cache_hits_per_second) @@
                ("memory_efficiency" :> basic.val["cache_utilization"]))

\* Variant of target_met comparing with > instead of >=.
target_met_strict(current_hit_rate, target_hit_rate) ==
    RLt(target_hit_rate, current_hit_rate)

\* current_metrics["hit_rate"] >= target_hit_rate
target_met(current_hit_rate, target_hit_rate) ==
    RLeq(target_hit_rate, current_hit_rate)

\* The mapping returned when the target is already met.
current_allocation(sc, current_hit_rate) ==
    ("recommended_memory_gb" :> sc.available_memory_gb) @@
    ("current_hit_rate" :> current_hit_rate) @@
    ("achievable" :> TRUE)

\* Variant of required_total_memory that leaves out the model's own memory.
required_total_memory_cache_only(mc, cp, target_hit_rate) ==
    LET required_tokens ==
            RMul(RMul(active_conversations(cp), target_hit_rate),
                 avg_tokens_per_conversation(cp))
    IN  RMul(required_tokens, RDiv(memory_per_token(mc), RInt(GiB)))

required_total_memory(mc, cp, target_hit_rate) ==
    LET required_cached_conversations ==
            RMul(active_conversations(cp), target_hit_rate)
        required_tokens ==
            RMul(required_cached_conversations,
                 avg_tokens_per_conversation(cp))
        required_cache_memory ==
            RMul(required_tokens, RDiv(memory_per_token(mc), RInt(GiB)))
    IN  RAdd(required_cache_memory, RMul(mc.model_size_gb, Overhead))

\* Variant of recommended_allocation that leaves out target_hit_rate.
recommended_allocation_short(sc, required, current_hit_rate, target_hit_rate) ==
    ("recommended_memory_gb" :> required) @@
    ("current_hit_rate" :> current_hit_rate) @@
    ("additional_memory_needed_gb" :>
         RMax(Zero, RSub(required, sc.available_memory_gb))) @@
    ("achievable" :>
         RLeq(required, RMul(sc.available_memory_gb, AchievableFactor)))

\* The mapping returned when the target is not met.
recommended_allocation(sc, required, current_hit_rate, target_hit_rate) ==
    ("recommended_memory_gb" :> required) @@
    ("current_hit_rate" :> current_hit_rate) @@
    ("target_hit_rate" :> target_hit_rate) @@
    ("additional_memory_needed_gb" :>
         RMax(Zero, RSub(required, sc.available_memory_gb))) @@
    ("achievable" :>
         RLeq(required, RMul(sc.available_memory_gb, AchievableFactor)))

optimize_memory_allocation(mc, sc, cp, target_hit_rate) ==
    LET current == calculate_detailed_metrics(mc, sc, cp)
    IN  IF current.exc # "None" THEN current
        ELSE IF target_met(current.val["hit_rate"], target_hit_rate)
        THEN Ok(current_allocation(sc, current.val["hit_rate"]))
        ELSE Ok(recommended_allocation(
                    sc, required_total_memory(mc, cp, target_hit_rate),
                    current.val["hit_rate"], target_hit_rate))

(***************************************************************************)
(* Inputs.  The records are plain dataclasses: construction stores any     *)
(* value it is given.                                                      *)
(***************************************************************************)
MaxMemorySteps == 4

MaxArrivalRate == 2

MaxHalfRounds == 4

\* A value that is no member of either enum (the bare string "fp16").
ForeignDtype == "str.fp16"

MakeModelConfig(layers, heads, kv_heads, dim, mdtype, kvdtype, size) ==
    [num_layers |-> layers, num_attention_heads |-> heads,
     num_kv_heads |-> kv_heads, head_dim |-> dim, model_dtype |-> mdtype,
     kvcache_dtype |-> kvdtype, model_size_gb |-> size]

MakeSystemConfig(mem) == [available_memory_gb |-> mem]

MakeConversationPattern(len, rate, interval, seq) ==
    [avg_conversation_length |-> len, conversation_arrival_rate |-> rate,
     within_conversation_interval |-> interval, avg_sequence_length |-> seq]

\* (num_layers, num_attention_heads, num_kv_heads, head_dim) of the
\* Mistral-24B and Qwen3-32B fixtures.
Geometries == {<<40, 32, 8, 128>>, <<64, 64, 8, 128>>}

EngineKVDtypes ==
    {"KVCacheDtype.FP16", "KVCacheDtype.FP8", "ModelDtype.INT4", ForeignDtype}

ModelSizes == {RInt(16), RInt(50), RInt(64)}

ModelConfigs ==
    {MakeModelConfig(g[1], g[2], g[3], g[4], "ModelDtype.FP16", k, m) :
        g \in Geometries, k \in EngineKVDtypes, m \in ModelSizes}

SystemConfigs == {MakeSystemConfig(RInt(20 * k)) : k \in 0..MaxMemorySteps}

ConversationLengths == {Rat(n, 2) : n \in 0..MaxHalfRounds} \cup {RInt(5)}

ArrivalRates == {RInt(r) : r \in 0..MaxArrivalRate}

\* (within_conversation_interval, avg_sequence_length)
RequestShapes == {<<RInt(1), 100>>, <<RInt(30), 1000>>}

ConversationPatterns ==
    {MakeConversationPattern(len, rate, s[1], s[2]) :
        len \in ConversationLengths, rate \in ArrivalRates,
        s \in RequestShapes}

TargetHitRates == {Zero, Rat(1, 2), DefaultTargetHitRate}

EngineCalls ==
    {"calculate_kvcache_memory_per_token", "calculate_derived_qps",
     "calculate_max_cached_tokens", "calculate_conversation_hit_rate",
     "calculate_detailed_metrics", "optimize_memory_allocation"}

Called(op, args) == [op |-> op, args |-> args]

(***************************************************************************)
(* State machine: a caller constructs records and calls the engine.        *)
(***************************************************************************)
Init ==
    /\ model_config = MakeModelConfig(40, 32, 8, 128, "ModelDtype.FP16",
                                      "KVCacheDtype.FP16", RInt(50))
    /\ system_config = MakeSystemConfig(RInt(80))
    /\ conv_pattern = MakeConversationPattern(RInt(5), RInt(2), RInt(30), 1000)
    /\ call = Called("ConversationPattern", <<>>)
    /\ result = Ok(conv_pattern)

NewModelConfig ==
    \E mc \in ModelConfigs :
        /\ model_config' = mc
        /\ call' = Called("ModelConfig", <<>>)
        /\ result' = Ok(mc)
        /\ UNCHANGED <<system_config, conv_pattern>>

NewSystemConfig ==
    \E sc \in SystemConfigs :
        /\ system_config' = sc
        /\ call' = Called("SystemConfig", <<>>)
        /\ result' = Ok(sc)
        /\ UNCHANGED <<model_config, conv_pattern>>

NewConversationPattern ==
    \E cp \in ConversationPatterns :
        /\ conv_pattern' = cp
        /\ call' = Called("ConversationPattern", <<>>)
        /\ result' = Ok(cp)
        /\ UNCHANGED <<model_config, system_config>>

CallMemoryPerToken ==
    /\ call' = Called("calculate_kvcache_memory_per_token", <<>>)
    /\ result' = calculate_kvcache_memory_per_token(model_config)
    /\ UNCHANGED <<model_config, system_config, conv_pattern>>

CallDerivedQps ==
    /\ call' = Called("calculate_derived_qps", <<>>)
    /\ result' = Ok(calculate_derived_qps(conv_pattern))
    /\ UNCHANGED <<model_config, system_config, conv_pattern>>

CallMaxCachedTokens ==
    /\ call' = Called("calculate_max_cached_tokens", <<>>)
    /\ result' = calculate_max_cached_tokens(model_config, system_config)
    /\ UNCHANGED <<model_config, system_config, conv_pattern>>

CallConversationHitRate ==
    /\ call' = Called("calculate_conversation_hit_rate", <<>>)
    /\ result' = calculate_conversation_hit_rate(model_config, system_config,
                                                 conv_pattern)
    /\ UNCHANGED <<model_config, system_config, conv_pattern>>

CallDetailedMetrics ==
    /\ call' = Called("calculate_detailed_metrics", <<>>)
    /\ result' = calculate_detailed_metrics(model_config, system_config,
                                            conv_pattern)
    /\ UNCHANGED <<model_config, system_config, conv_pattern>>

CallOptimizeMemoryAllocation ==
    \E t \in TargetHitRates :
        /\ call' = Called("optimize_memory_allocation", <<t>>)
        /\ result' = optimize_memory_allocation(model_config, system_config,
                                                conv_pattern, t)
        /\ UNCHANGED <<model_config, system_config, conv_pattern>>

Next ==
    \/ NewModelConfig
    \/ NewSystemConfig
    \/ NewConversationPattern
    \/ CallMemoryPerToken
    \/ CallDerivedQps
    \/ CallMaxCachedTokens
    \/ CallConversationHitRate
    \/ CallDetailedMetrics
    \/ CallOptimizeMemoryAllocation

Spec == Init /\ [][Next]_vars

(***************************************************************************)
(* The same caller exploring model geometries and element types only.      *)
(***************************************************************************)
\* (model_dtype, model_size_gb)
WeightShapes ==
    {<<"ModelDtype.FP16", RInt(16)>>, <<"ModelDtype.INT4", RInt(48)>>}

GeometryConfigs ==
    {MakeModelConfig(l, h, kv, d, w[1], k, w[2]) :
        l \in {32, 40}, h \in {32, 64}, kv \in {8, 32}, d \in {64, 128},
        w \in WeightShapes,
        k \in ModelDtype \cup KVCacheDtype \cup {ForeignDtype}}

NewGeometryConfig ==
    \E mc \in GeometryConfigs :
        /\ model_config' = mc
        /\ call' = Called("ModelConfig", <<>>)
        /\ result' = Ok(mc)
        /\ UNCHANGED <<system_config, conv_pattern>>

NextGeom ==
    \/ NewGeometryConfig
    \/ CallMemoryPerToken

SpecGeom == Init /\ [][NextGeom]_vars

(***************************************************************************)
(* Properties.                                                             *)
(***************************************************************************)
Returned(op) == call.op = op /\ result.exc = "None"

DtypeInTable == model_config.kvcache_dtype \in DOMAIN dtype_bytes

\* The configurations the data model admits.
ValidConfiguration ==
    /\ model_config.num_layers > 0
    /\ model_config.num_kv_heads > 0
    /\ model_config.head_dim > 0
    /\ RLt(Zero, model_config.model_size_gb)
    /\ RLeq(Zero, system_config.available_memory_gb)
    /\ RLeq(One, conv_pattern.avg_conversation_length)
    /\ RLeq(Zero, conv_pattern.conversation_arrival_rate)
    /\ RLt(Zero, conv_pattern.within_conversation_interval)
    /\ conv_pattern.avg_sequence_length > 0

InUnitInterval(x) == RLeq(Zero, x) /\ RLeq(x, One)

\* Weights plus overhead take all the memory: model_size_gb * 1.2 >=
\* available_memory_gb.
Starved ==
    RLeq(system_config.available_memory_gb,
         RMul(model_config.model_size_gb, Rat(12, 10)))

\* The hit rate calculate_detailed_metrics computes for the current records.
CurrentHitRate ==
    calculate_detailed_metrics(model_config, system_config,
                               conv_pattern).val["hit_rate"]

\* C1: for every valid configuration the mapping returned by
\* calculate_conversation_hit_rate has 0 <= hit_rate <= 1 and
\* 0 <= cache_utilization <= 1, in the starved branch and in both capacity
\* branches.
C1_HitRateAndUtilizationInUnitInterval ==
    (Returned("calculate_conversation_hit_rate") /\ ValidConfiguration)
        => /\ InUnitInterval(result.val["hit_rate"])
           /\ InUnitInterval(result.val["cache_utilization"])

\* Demand exceeds capacity: utilization is capped at 1 and the hit rate lies
\* strictly inside the interval.
C1_Witness ==
    /\ Returned("calculate_conversation_hit_rate")
    /\ ValidConfiguration
    /\ RLt(Zero, result.val["max_cached_tokens"])
    /\ RLt(max_cached_conversations(result.val["max_cached_tokens"].num,
                                    conv_pattern),
           result.val["active_conversations"])
    /\ RLt(Zero, result.val["hit_rate"])
    /\ RLt(result.val["hit_rate"], One)
    /\ result.val["cache_utilization"] = One

\* C2: whenever model_size_gb * 1.2 >= available_memory_gb (and the cache
\* dtype has a width), calculate_max_cached_tokens returns 0 and
\* calculate_conversation_hit_rate returns hit_rate 0 and cache_utilization 0
\* for every traffic pattern, without raising.
C2_StarvedMemoryYieldsZero ==
    (Starved /\ DtypeInTable)
        => /\ call.op = "calculate_max_cached_tokens" => result = Ok(0)
           /\ call.op = "calculate_conversation_hit_rate"
                => /\ result.exc = "None"
                   /\ result.val["hit_rate"] = Zero
                   /\ result.val["cache_utilization"] = Zero

\* Weights plus overhead equal the available memory exactly, under traffic.
C2_Witness ==
    /\ Returned("calculate_conversation_hit_rate")
    /\ DtypeInTable
    /\ system_config.available_memory_gb
         = RMul(model_config.model_size_gb, Rat(12, 10))
    /\ RLt(Zero, conv_pattern.conversation_arrival_rate)
    /\ result.val["hit_rate"] = Zero

\* C3: if the hit rate of the current configuration is >= target_hit_rate,
\* optimize_memory_allocation returns achievable = true and
\* recommended_memory_gb = available_memory_gb.
C3_TargetMetKeepsMemory ==
    (/\ Returned("optimize_memory_allocation")
     /\ RLeq(call.args[1], CurrentHitRate))
        => /\ result.val["achievable"] = TRUE
           /\ result.val["recommended_memory_gb"]
                = system_config.available_memory_gb

\* A positive target that the current hit rate meets exactly.
C3_Witness ==
    /\ Returned("optimize_memory_allocation")
    /\ RLt(Zero, call.args[1])
    /\ call.args[1] = CurrentHitRate
    /\ result.val["achievable"] = TRUE

\* C4 as stated: with 80 GiB available and model_size_gb = 64 the cache
\* budget is negative, so calculate_max_cached_tokens returns 0 and
\* calculate_conversation_hit_rate returns hit_rate 0.
C4_ScenarioC_BudgetNegative ==
    (/\ system_config.available_memory_gb = RInt(80)
     /\ model_config.model_size_gb = RInt(64)
     /\ DtypeInTable)
        => /\ call.op = "calculate_max_cached_tokens" => result = Ok(0)
           /\ call.op = "calculate_conversation_hit_rate"
                => (result.exc = "None" /\ result.val["hit_rate"] = Zero)

QwenFp16 ==
    /\ model_config.num_layers = 64
    /\ model_config.num_kv_heads = 8
    /\ model_config.head_dim = 128
    /\ model_config.kvcache_dtype = "KVCacheDtype.FP16"

\* C4: with 80 GiB available and model_size_gb = 64 the cache budget is
\* 80 - 76.8 = 3.2 GiB, which is positive: calculate_max_cached_tokens
\* returns a positive count (13107 for the 64-layer, 8-kv-head, 128-dim fp16
\* geometry of the test), and for a valid configuration
\* calculate_conversation_hit_rate returns hit_rate 0 exactly when
\* avg_conversation_length is 1.
C4_ScenarioC_BudgetPositive ==
    (/\ system_config.available_memory_gb = RInt(80)
     /\ model_config.model_size_gb = RInt(64)
     /\ DtypeInTable)
        => /\ call.op = "calculate_max_cached_tokens"
                => /\ result.exc = "None"
                   /\ result.val > 0
                   /\ QwenFp16 => result.val = 13107
           /\ (Returned("calculate_conversation_hit_rate")
                 /\ ValidConfiguration)
                => /\ RLt(Zero, result.val["max_cached_tokens"])
                   /\ result.val["hit_rate"] = Zero
                        <=> conv_pattern.avg_conversation_length = One

C4_Witness ==
    /\ system_config.available_memory_gb = RInt(80)
    /\ model_config.model_size_gb = RInt(64)
    /\ QwenFp16
    /\ Returned("calculate_conversation_hit_rate")
    /\ ValidConfiguration
    /\ conv_pattern.avg_conversation_length = One
    /\ result.val["max_cached_tokens"] = RInt(13107)
    /\ result.val["hit_rate"] = Zero

OptimizerFields ==
    {"recommended_memory_gb", "current_hit_rate", "target_hit_rate",
     "additional_memory_needed_gb", "achievable"}

\* C5 as stated: every mapping returned by optimize_memory_allocation
\* contains all five optimizer fields.
C5_AllFiveFieldsOnEveryPath ==
    Returned("optimize_memory_allocation")
        => OptimizerFields \subseteq DOMAIN result.val

\* C5: the mapping returned by optimize_memory_allocation has exactly the
\* five optimizer fields when the current hit rate is below the target, and
\* exactly recommended_memory_gb, current_hit_rate and achievable when the
\* current hit rate already meets the target.
C5_FieldsPerPath ==
    Returned("optimize_memory_allocation")
        => DOMAIN result.val
             = IF RLeq(call.args[1], CurrentHitRate)
               THEN {"recommended_memory_gb", "current_hit_rate", "achievable"}
               ELSE OptimizerFields

\* A call on each side is needed; this is the one below the target.
C5_Witness ==
    /\ Returned("optimize_memory_allocation")
    /\ RLt(CurrentHitRate, call.args[1])
    /\ "target_hit_rate" \in DOMAIN result.val

\* C6 as stated: a ConversationPattern with avg_conversation_length < 1 is
\* rejected when it is constructed, no engine function is reached with such a
\* record, and none divides by zero.
C6_DegenerateTrafficRejected ==
    /\ (call.op = "ConversationPattern" /\ result.exc = "None")
         => RLeq(One, result.val.avg_conversation_length)
    /\ call.op \in EngineCalls
         => RLeq(One, conv_pattern.avg_conversation_length)
    /\ result.exc # "ZeroDivisionError"

\* C7 as stated: a kvcache_dtype that is no KVCacheDtype member (such as
\* ModelDtype.INT4) makes calculate_kvcache_memory_per_token raise.
C7_WeightsOnlyDtypeRejected ==
    (/\ call.op = "calculate_kvcache_memory_per_token"
     /\ model_config.kvcache_dtype \notin KVCacheDtype)
        => result.exc = "KeyError"

\* C7: calculate_kvcache_memory_per_token raises (KeyError) exactly when
\* kvcache_dtype is no key of the single width table, which holds every
\* member of ModelDtype and of KVCacheDtype; with ModelDtype.INT4 as
\* kvcache_dtype it returns 2 * num_layers * num_kv_heads * head_dim * 0.5.
C7_OnlyForeignDtypeRejected ==
    call.op = "calculate_kvcache_memory_per_token"
        => /\ result.exc = "KeyError"
                <=> model_config.kvcache_dtype
                        \notin ModelDtype \cup KVCacheDtype
           /\ result.exc \in {"None", "KeyError"}
           /\ model_config.kvcache_dtype = "ModelDtype.INT4"
                => result = Ok(RInt(model_config.num_layers
                                    * model_config.num_kv_heads
                                    * model_config.head_dim))

C7_Witness ==
    /\ Returned("calculate_kvcache_memory_per_token")
    /\ model_config.kvcache_dtype = "ModelDtype.INT4"
    /\ model_config.num_layers = 40
    /\ model_config.num_kv_heads = 8
    /\ model_config.head_dim = 128
    /\ result.val = RInt(40960)

\* Width of an element type in bits, read off the enum member names.
WidthBits(dtype) ==
    CASE dtype \in {"ModelDtype.FP32", "KVCacheDtype.FP32"} -> 32
      [] dtype \in {"ModelDtype.FP16", "KVCacheDtype.FP16",
                    "ModelDtype.BF16", "KVCacheDtype.BF16"} -> 16
      [] dtype \in {"ModelDtype.FP8", "KVCacheDtype.FP8",
                    "ModelDtype.INT8", "KVCacheDtype.INT8"} -> 8
      [] dtype = "ModelDtype.INT4" -> 4

SameCacheGeometry(a, b) ==
    /\ a.num_layers = b.num_layers
    /\ a.num_kv_heads = b.num_kv_heads
    /\ a.head_dim = b.head_dim
    /\ a.kvcache_dtype = b.kvcache_dtype

NoSmallerCacheGeometry(a, b) ==
    /\ a.num_layers <= b.num_layers
    /\ a.num_kv_heads <= b.num_kv_heads
    /\ a.head_dim <= b.head_dim
    /\ WidthBits(a.kvcache_dtype) <= WidthBits(b.kvcache_dtype)

\* C8: calculate_kvcache_memory_per_token returns exactly
\* 2 * num_layers * num_kv_heads * head_dim * width(kvcache_dtype); the value
\* depends on those four inputs only; {32, 32, 128, 2 bytes} gives 524288 and
\* {40, 8, 128, 2 bytes} gives 163840; and it is non-decreasing in each of
\* the four factors.
C8_MemoryPerTokenFormula ==
    Returned("calculate_kvcache_memory_per_token")
        => LET mc == model_config
               bits == WidthBits(mc.kvcache_dtype)
           IN  /\ result.val
                    = Rat(2 * mc.num_layers * mc.num_kv_heads * mc.head_dim
                            * bits, 8)
               /\ (mc.num_layers = 32 /\ mc.num_kv_heads = 32
                     /\ mc.head_dim = 128 /\ bits = 16)
                    => result.val = RInt(524288)
               /\ (mc.num_layers = 40 /\ mc.num_kv_heads = 8
                     /\ mc.head_dim = 128 /\ bits = 16)
                    => result.val = RInt(163840)
               /\ \A other \in GeometryConfigs :
                    LET r == calculate_kvcache_memory_per_token(other)
                    IN  /\ SameCacheGeometry(mc, other) => r = result
                        /\ (r.exc = "None"
                              /\ NoSmallerCacheGeometry(mc, other))
                             => RLeq(result.val, r.val)

\* Scenario B with more attention heads than KV heads.
C8_Witness ==
    /\ Returned("calculate_kvcache_memory_per_token")
    /\ model_config.num_layers = 40
    /\ model_config.num_attention_heads = 32
    /\ model_config.num_kv_heads = 8
    /\ model_config.head_dim = 128
    /\ model_config.kvcache_dtype = "KVCacheDtype.FP16"
    /\ result.val = RInt(163840)

\* C9 as stated: when max_cached_tokens > 0, hit_rate is the branch value
\* (1 - 1/avg_conversation_length when active <= capacity, that times
\* capacity / active otherwise) clamped to [0, 1], and hit_rate never exceeds
\* 1 - 1/avg_conversation_length.
C9_HitRateBranchesAndBound ==
    (/\ Returned("calculate_conversation_hit_rate")
     /\ RLt(Zero, result.val["max_cached_tokens"]))
        => LET len == conv_pattern.avg_conversation_length
               active == RMul(RMul(conv_pattern.conversation_arrival_rate,
                                   len),
                              conv_pattern.within_conversation_interval)
               capacity ==
                   RDiv(result.val["max_cached_tokens"],
                        RMul(len, RInt(conv_pattern.avg_sequence_length)))
               bound == RSub(One, RDiv(One, len))
               value == IF RLeq(active, capacity) THEN bound
                        ELSE RDiv(RMul(bound, capacity), active)
           IN  /\ result.val["hit_rate"] = RMax(Zero, RMin(One, value))
               /\ RLeq(result.val["hit_rate"], bound)

\* GiB of cache one token takes: memory_per_token / 1024**3.
TokenGb == RDiv(memory_per_token(model_config), RInt(GiB))

BudgetGb ==
    RSub(system_config.available_memory_gb,
         RMul(model_config.model_size_gb, Rat(12, 10)))

\* C10: when available_for_cache > 0, calculate_max_cached_tokens returns the
\* largest integer n >= 0 with n * bytes_per_token <= available_for_cache,
\* and in calculate_detailed_metrics cache_memory_gb + model_memory_gb does
\* not exceed available_memory_gb.
C10_TokensTruncatedAndFit ==
    (DtypeInTable /\ RLt(Zero, BudgetGb))
        => /\ call.op = "calculate_max_cached_tokens"
                => /\ result.exc = "None"
                   /\ result.val >= 0
                   /\ RLeq(RMul(RInt(result.val), TokenGb), BudgetGb)
                   /\ RLt(BudgetGb, RMul(RInt(result.val + 1), TokenGb))
           /\ Returned("calculate_detailed_metrics")
                => RLeq(RAdd(result.val["cache_memory_gb"],
                             result.val["model_memory_gb"]),
                        system_config.available_memory_gb)

\* A budget that is no whole number of tokens, so truncation drops something.
C10_Witness ==
    /\ Returned("calculate_detailed_metrics")
    /\ RLt(Zero, BudgetGb)
    /\ RLt(Zero, result.val["max_cached_tokens"])
    /\ RLt(RAdd(result.val["cache_memory_gb"], result.val["model_memory_gb"]),
           system_config.available_memory_gb)

\* required_total of C11, written out from the records and the target:
\* (active * target * avg_conversation_length * avg_sequence_length
\*  * bytes_per_token) / 2^30 + model_size_gb * 1.2, with
\* active = conversation_arrival_rate * avg_conversation_length
\*          * within_conversation_interval.
RequiredTotal ==
    LET len == conv_pattern.avg_conversation_length
        active == RMul(RMul(conv_pattern.conversation_arrival_rate, len),
                       conv_pattern.within_conversation_interval)
        tokens == RMul(RMul(RMul(active, call.args[1]), len),
                       RInt(conv_pattern.avg_sequence_length))
    IN  RAdd(RMul(tokens, TokenGb),
             RMul(model_config.model_size_gb, Rat(12, 10)))

\* C11: when the current hit rate is below target_hit_rate,
\* optimize_memory_allocation returns required_total as
\* recommended_memory_gb, max(0, required_total - available_memory_gb) as
\* additional_memory_needed_gb, and achievable = true if and only if
\* required_total <= 2 * available_memory_gb.
C11_RecommendationBelowTarget ==
    (/\ Returned("optimize_memory_allocation")
     /\ RLt(CurrentHitRate, call.args[1]))
        => LET avail == system_config.available_memory_gb
               shortfall == RSub(RequiredTotal, avail)
           IN  /\ result.val["recommended_memory_gb"] = RequiredTotal
               /\ result.val["additional_memory_needed_gb"]
                    = IF RLt(Zero, shortfall) THEN shortfall ELSE Zero
               /\ result.val["achievable"]
                    <=> RLeq(RequiredTotal, RAdd(avail, avail))

\* Below the target with traffic, needing more than the memory there is but
\* no more than twice of it.
C11_Witness ==
    /\ Returned("optimize_memory_allocation")
    /\ RLt(CurrentHitRate, call.args[1])
    /\ RLt(Zero, conv_pattern.conversation_arrival_rate)
    /\ RLt(Zero, result.val["additional_memory_needed_gb"])
    /\ result.val["achievable"] = TRUE
    /\ result.val["recommended_memory_gb"] = RequiredTotal

\* The other outcome: more than twice the available memory is required.
C11_WitnessUnachievable ==
    /\ Returned("optimize_memory_allocation")
    /\ RLt(CurrentHitRate, call.args[1])
    /\ RLt(Zero, system_config.available_memory_gb)
    /\ result.val["achievable"] = FALSE

\* The hit rate of the current geometry and traffic under another memory size.
HitRateWith(sc) ==
    calculate_conversation_hit_rate(model_config, sc, conv_pattern)

\* C12: for a fixed model geometry and a fixed traffic pattern with
\* avg_conversation_length >= 1, hit_rate is non-decreasing in
\* available_memory_gb: for memory sizes m1 <= m2, hit_rate(m1) <= hit_rate(m2).
C12_HitRateMonotoneInMemory ==
    (/\ Returned("calculate_conversation_hit_rate")
     /\ RLeq(One, conv_pattern.avg_conversation_length))
        => \A sc \in SystemConfigs :
             RLeq(system_config.available_memory_gb, sc.available_memory_gb)
               => /\ HitRateWith(sc).exc = "None"
                  /\ RLeq(result.val["hit_rate"],
                          HitRateWith(sc).val["hit_rate"])

\* Demand exceeds capacity and a larger memory size of the model gives a
\* strictly higher hit rate.
C12_Witness ==
    /\ Returned("calculate_conversation_hit_rate")
    /\ RLeq(One, conv_pattern.avg_conversation_length)
    /\ RLt(Zero, result.val["hit_rate"])
    /\ result.val["cache_utilization"] = One
    /\ \E sc \in SystemConfigs :
         /\ RLt(system_config.available_memory_gb, sc.available_memory_gb)
         /\ RLt(result.val["hit_rate"], HitRateWith(sc).val["hit_rate"])

====
